---- MODULE Spec2Model ----
(***************************************************************************)
(* Model of bot.py: the spreadsheet parser parse_free_swim_from_xls and     *)
(* the evening filter _filter_evening.                                     *)
(*                                                                         *)
(* Text is a sequence of one-character strings.  The Cyrillic letters of   *)
(* the source are written with one ASCII letter each:                      *)
(*   s = U+0441 (es)   S = U+0421 (capital es)                             *)
(*   v = ve, o = o, b = be, d = de, n = en, e = ie, a = a, i = i, t = te,  *)
(*   r = er, y = yeru, j = short i, q = soft sign, m = em, f = ef,         *)
(*   l = el, p = pe                                                        *)
(* "nbsp" is U+00A0.  So  s v o b o d n o e  is the free-swim marker,      *)
(* s a n i t a r  the sanitary marker,  s e m e j n o e  the family        *)
(* marker and  s a n i t a r n y j _ d e n q  the sanitary-day marker.     *)
(***************************************************************************)
EXTENDS Integers, Sequences, FiniteSets, TLC

(* ------------------------------ characters ----------------------------- *)

Digits == {"0", "1", "2", "3", "4", "5", "6", "7", "8", "9"}

LowerLetters ==
  {"s", "v", "o", "b", "d", "n", "e", "a", "i", "t", "r", "y", "j", "q",
   "m", "f", "l", "p"}

UpperLetters == {"S"}

IsDigit(ch) == ch \in Digits

\* \s of the re module: the ordinary space and U+00A0 are whitespace
IsSpace(ch) == ch \in {" ", "nbsp"}

\* [A-Ya-ya] of date_pat: a Cyrillic letter of either case
IsCyrLetter(ch) == ch \in LowerLetters \cup UpperLetters

\* \w of the re module: letters, digits, underscore
IsWord(ch) == IsCyrLetter(ch) \/ IsDigit(ch) \/ ch = "_"

\* str.lower() on one character
LowerChar(ch) == IF ch = "S" THEN "s" ELSE ch

DigitVal(ch) ==
  CASE ch = "0" -> 0 [] ch = "1" -> 1 [] ch = "2" -> 2 [] ch = "3" -> 3
    [] ch = "4" -> 4 [] ch = "5" -> 5 [] ch = "6" -> 6 [] ch = "7" -> 7
    [] ch = "8" -> 8 [] ch = "9" -> 9

(* ------------------------------ text helpers --------------------------- *)

lower(s) == [i \in 1..Len(s) |-> LowerChar(s[i])]

\* position p of s holds a character of class C (FALSE outside the text)
DigitAt(s, p) == p >= 1 /\ p <= Len(s) /\ IsDigit(s[p])
SpaceAt(s, p) == p >= 1 /\ p <= Len(s) /\ IsSpace(s[p])
SepAt(s, p) == p >= 1 /\ p <= Len(s) /\ s[p] \in {":", "."}

\* length of the run of whitespace starting at position p
RECURSIVE SpaceRun(_, _)
SpaceRun(s, p) == IF SpaceAt(s, p) THEN 1 + SpaceRun(s, p + 1) ELSE 0

\* w occurs in s starting at position p
OccursAt(s, w, p) ==
  /\ p >= 1
  /\ p + Len(w) - 1 <= Len(s)
  /\ \A k \in 1..Len(w) : s[p + k - 1] = w[k]

\* the `in` operator of str
Contains(s, w) == \E p \in 1..(Len(s) + 1) : OccursAt(s, w, p)

\* \b in front of a word character at position p
WordStartAt(s, p) == p = 1 \/ ~IsWord(s[p - 1])

(* ------------------------------ _norm ---------------------------------- *)

\* s.replace(U+00A0, " ")
ReplaceNbsp(s) == [i \in 1..Len(s) |-> IF s[i] = "nbsp" THEN " " ELSE s[i]]

\* str.strip()
RECURSIVE LStrip(_)
LStrip(s) == IF s # <<>> /\ IsSpace(Head(s)) THEN LStrip(Tail(s)) ELSE s

RECURSIVE RStrip(_)
RStrip(s) ==
  IF s # <<>> /\ IsSpace(s[Len(s)]) THEN RStrip(SubSeq(s, 1, Len(s) - 1)) ELSE s

strip(s) == RStrip(LStrip(s))

\* length of the match of (\d{1,2})\.(\d{2}) at position p, 0 if none
DotTimeLen(s, p) ==
  IF DigitAt(s, p) /\ DigitAt(s, p + 1) /\ OccursAt(s, <<".">>, p + 2)
     /\ DigitAt(s, p + 3) /\ DigitAt(s, p + 4)
  THEN 5
  ELSE IF DigitAt(s, p) /\ OccursAt(s, <<".">>, p + 1)
          /\ DigitAt(s, p + 2) /\ DigitAt(s, p + 3)
       THEN 4
       ELSE 0

\* re.sub(r"(\d{1,2})\.(\d{2})", r"\1:\2", s), scanning from position p
RECURSIVE DotToColon(_, _)
DotToColon(s, p) ==
  IF p > Len(s) THEN <<>>
  ELSE LET n == DotTimeLen(s, p) IN
       IF n = 0 THEN <<s[p]>> \o DotToColon(s, p + 1)
       ELSE SubSeq(s, p, p + n - 4) \o <<":">> \o SubSeq(s, p + n - 2, p + n - 1)
            \o DotToColon(s, p + n)

\* re.sub(r"\s+", " ", s), scanning from position p
RECURSIVE CollapseSpaces(_, _)
CollapseSpaces(s, p) ==
  IF p > Len(s) THEN <<>>
  ELSE LET n == SpaceRun(s, p) IN
       IF n = 0 THEN <<s[p]>> \o CollapseSpaces(s, p + 1)
       ELSE <<" ">> \o CollapseSpaces(s, p + n)

_norm(s) == CollapseSpaces(DotToColon(strip(ReplaceNbsp(s)), 1), 1)

(* ------------------------------ patterns ------------------------------- *)

\* length of the run of date_pat letters starting at position p
RECURSIVE LetterRun(_, _)
LetterRun(s, p) ==
  IF p >= 1 /\ p <= Len(s) /\ IsCyrLetter(s[p]) THEN 1 + LetterRun(s, p + 1) ELSE 0

\* date_pat.match(x):  ^\s*(\d{1,2})\s+([A-Ya-ya]+)\s*$
date_pat(x) ==
  LET a == 1 + SpaceRun(x, 1)
      d == IF DigitAt(x, a) /\ DigitAt(x, a + 1) THEN 2
           ELSE IF DigitAt(x, a) THEN 1 ELSE 0
      w == SpaceRun(x, a + d)
      l == LetterRun(x, a + d + w)
      z == SpaceRun(x, a + d + w + l)
  IN  d >= 1 /\ w >= 1 /\ l >= 1 /\ a + d + w + l + z = Len(x) + 1

\* \s*\d{1,2}[:.]\d{2} matches s from position p on
TimeTailAt(s, p) ==
  LET q == p + SpaceRun(s, p) IN
    \E k \in 1..2 :
      /\ \A i \in 0..(k - 1) : DigitAt(s, q + i)
      /\ SepAt(s, q + k)
      /\ DigitAt(s, q + k + 1)
      /\ DigitAt(s, q + k + 2)

\* time_pat.search(low):  \b s \s*\d{1,2}[:.]\d{2}  with re.IGNORECASE
time_pat(s) ==
  \E p \in 1..Len(s) :
    LowerChar(s[p]) = "s" /\ WordStartAt(s, p) /\ TimeTailAt(s, p + 1)

\* positions where (s \s*\d{1,2}[:.]\d{2}.*)$ can start, re.IGNORECASE
InlineStarts(c) ==
  {p \in 1..Len(c) : LowerChar(c[p]) = "s" /\ TimeTailAt(c, p + 1)}

Min(S) == CHOOSE x \in S : \A y \in S : x <= y

NoMatch == <<"no match">>

\* re.search(r"(s\s*\d{1,2}[:.]\d{2}.*)$", c, flags=re.IGNORECASE): group 1
\* of the leftmost match, NoMatch if there is none
InlineTime(c) ==
  IF InlineStarts(c) = {} THEN NoMatch
  ELSE SubSeq(c, Min(InlineStarts(c)), Len(c))

\* re.sub(r"\bs\s*(\d)\:", r"s 0\1:", t), scanning from position p
RECURSIVE PadHour(_, _)
PadHour(t, p) ==
  IF p > Len(t) THEN <<>>
  ELSE LET q == p + 1 + SpaceRun(t, p + 1) IN
       IF t[p] = "s" /\ WordStartAt(t, p) /\ DigitAt(t, q)
          /\ OccursAt(t, <<":">>, q + 1)
       THEN <<"s", " ", "0", t[q], ":">> \o PadHour(t, q + 2)
       ELSE <<t[p]>> \o PadHour(t, p + 1)

(* ------------------------------ constants ------------------------------ *)

DAYS ==
  <<"Ponedelnik", "Vtornik", "Sreda", "Chetverg", "Pyatnica", "Subbota",
    "Voskresenye">>

EVENING_FROM_HOUR == 18

\* the bound of the header scan, range(min(len(df), 60))
HeaderScanRows == 60

\* day_cols[:7]
MaxDayCols == 7

\* the header needs hits >= 3
MinDateHits == 3

\* the marker literals of the column loop
Semejnoe == <<"s", "e", "m", "e", "j", "n", "o", "e">>
Sanitar == <<"s", "a", "n", "i", "t", "a", "r">>
SanitarnyjDen == Sanitar \o <<"n", "y", "j", " ", "d", "e", "n", "q">>
Svobodnoe == <<"s", "v", "o", "b", "o", "d", "n", "o", "e">>

(* ------------------------------ column loop ---------------------------- *)

\* mutant: the inline time goes to the list of the mode the cell found
MarkerCell_OldMode(mode, day, cat, c) ==
  LET m == InlineTime(c)
      to == IF mode = "None" THEN cat ELSE mode
  IN  [mode |-> cat,
       day |-> IF m = NoMatch THEN day
               ELSE [day EXCEPT ![to] = Append(@, _norm(m))]]

\* the body of a marker branch: set the mode, append the inline time if any
MarkerCell(mode, day, cat, c) ==
  LET m == InlineTime(c) IN
    [mode |-> cat,
     day |-> IF m = NoMatch THEN day
             ELSE [day EXCEPT ![cat] = Append(@, _norm(m))]]

\* mutant: the "sanitar" test comes before the "sanitarnyj den" test
ClassifyCell_SanitarFirst(mode, day, c) ==
  LET low == lower(c) IN
    IF c = <<>> THEN [mode |-> mode, day |-> day]
    ELSE IF Contains(low, Semejnoe) THEN [mode |-> mode, day |-> day]
    ELSE IF Contains(low, Sanitar) THEN MarkerCell(mode, day, "sanitary_time", c)
    ELSE IF Contains(low, SanitarnyjDen) THEN MarkerCell(mode, day, "sanitary_day", c)
    ELSE IF Contains(low, Svobodnoe) THEN MarkerCell(mode, day, "free", c)
    ELSE IF time_pat(low) /\ mode \in {"free", "sanitary_time", "sanitary_day"}
         THEN LET m == InlineTime(c) IN
                IF m = NoMatch THEN [mode |-> mode, day |-> day]
                ELSE [mode |-> mode,
                      day |-> [day EXCEPT ![mode] = Append(@, PadHour(_norm(m), 1))]]
    ELSE [mode |-> mode, day |-> day]

\* mutant: the family test is missing
ClassifyCell_NoFamilySkip(mode, day, c) ==
  LET low == lower(c) IN
    IF c = <<>> THEN [mode |-> mode, day |-> day]
    ELSE IF Contains(low, SanitarnyjDen) THEN MarkerCell(mode, day, "sanitary_day", c)
    ELSE IF Contains(low, Sanitar) THEN MarkerCell(mode, day, "sanitary_time", c)
    ELSE IF Contains(low, Svobodnoe) THEN MarkerCell(mode, day, "free", c)
    ELSE IF time_pat(low) /\ mode \in {"free", "sanitary_time", "sanitary_day"}
         THEN LET m == InlineTime(c) IN
                IF m = NoMatch THEN [mode |-> mode, day |-> day]
                ELSE [mode |-> mode,
                      day |-> [day EXCEPT ![mode] = Append(@, PadHour(_norm(m), 1))]]
    ELSE [mode |-> mode, day |-> day]

\* mutant: a cell that is neither marker nor time range resets the mode
ClassifyCell_OtherResets(mode, day, c) ==
  LET low == lower(c) IN
    IF c = <<>> THEN [mode |-> mode, day |-> day]
    ELSE IF Contains(low, Semejnoe) THEN [mode |-> mode, day |-> day]
    ELSE IF Contains(low, SanitarnyjDen) THEN MarkerCell(mode, day, "sanitary_day", c)
    ELSE IF Contains(low, Sanitar) THEN MarkerCell(mode, day, "sanitary_time", c)
    ELSE IF Contains(low, Svobodnoe) THEN MarkerCell(mode, day, "free", c)
    ELSE IF time_pat(low) /\ mode \in {"free", "sanitary_time", "sanitary_day"}
         THEN LET m == InlineTime(c) IN
                IF m = NoMatch THEN [mode |-> mode, day |-> day]
                ELSE [mode |-> mode,
                      day |-> [day EXCEPT ![mode] = Append(@, PadHour(_norm(m), 1))]]
    ELSE [mode |-> "None", day |-> day]

\* one iteration of `for c in col_cells`: the new mode and day entry
ClassifyCell(mode, day, c) ==
  LET low == lower(c) IN
    IF c = <<>> THEN [mode |-> mode, day |-> day]
    ELSE IF Contains(low, Semejnoe) THEN [mode |-> mode, day |-> day]
    ELSE IF Contains(low, SanitarnyjDen) THEN MarkerCell(mode, day, "sanitary_day", c)
    ELSE IF Contains(low, Sanitar) THEN MarkerCell(mode, day, "sanitary_time", c)
    ELSE IF Contains(low, Svobodnoe) THEN MarkerCell(mode, day, "free", c)
    ELSE IF time_pat(low) /\ mode \in {"free", "sanitary_time", "sanitary_day"}
         THEN LET m == InlineTime(c) IN
                IF m = NoMatch THEN [mode |-> mode, day |-> day]
                ELSE [mode |-> mode,
                      day |-> [day EXCEPT ![mode] = Append(@, PadHour(_norm(m), 1))]]
    ELSE [mode |-> mode, day |-> day]

\* is x an element of the sequence s
InSeq(x, s) == \E i \in 1..Len(s) : s[i] = x

\* mutant: the last occurrence is kept instead of the first
RECURSIVE Dedup_KeepLast(_)
Dedup_KeepLast(s) ==
  IF s = <<>> THEN <<>>
  ELSE LET rest == Dedup_KeepLast(Tail(s)) IN
       IF InSeq(Head(s), rest) THEN rest ELSE <<Head(s)>> \o rest

\* the `seen` / `cleaned` loop: drop every occurrence after the first
RECURSIVE Dedup(_)
Dedup(s) ==
  IF s = <<>> THEN <<>>
  ELSE LET init == Dedup(SubSeq(s, 1, Len(s) - 1)) IN
       IF InSeq(s[Len(s)], init) THEN init ELSE Append(init, s[Len(s)])

DedupDay(day) ==
  [day EXCEPT !.free = Dedup(@), !.sanitary_time = Dedup(@),
              !.sanitary_day = Dedup(@)]

EmptyDay(key) ==
  [key |-> key, free |-> <<>>, sanitary_time |-> <<>>, sanitary_day |-> <<>>]

(* ------------------------------ data frame ----------------------------- *)

\* A sheet (df after fillna("").astype(str)) is [pad, rows]: pad rows of
\* empty cells followed by the rows written out.  Indices are 0-based as
\* in the source.
DfLen(df) == df.pad + Len(df.rows)

DfWidth(df) == IF df.rows = <<>> THEN 0 ELSE Len(df.rows[1])

\* df.iloc[i].tolist()
DfRow(df, i) ==
  IF i < df.pad THEN [k \in 1..DfWidth(df) |-> <<>>] ELSE df.rows[i - df.pad + 1]

NormRow(row) == [k \in 1..Len(row) |-> _norm(row[k])]

\* sum(1 for x in row if date_pat.match(x))
Hits(row) == Cardinality({k \in 1..Len(row) : date_pat(row[k])})

NoRow == -1

\* mutant: the scan is not bounded to the first 60 rows
DateRowIdx_Unbounded(df) ==
  LET found == {i \in 0..(DfLen(df) - 1) : Hits(NormRow(DfRow(df, i))) >= MinDateHits}
  IN  IF found = {} THEN NoRow ELSE Min(found)

\* mutant: two date cells are enough
DateRowIdx_TwoHits(df) ==
  LET n == IF DfLen(df) < HeaderScanRows THEN DfLen(df) ELSE HeaderScanRows
      found == {i \in 0..(n - 1) : Hits(NormRow(DfRow(df, i))) >= MinDateHits - 1}
  IN  IF found = {} THEN NoRow ELSE Min(found)

\* the header scan: the first row among the first 60 with hits >= 3
DateRowIdx(df) ==
  LET n == IF DfLen(df) < HeaderScanRows THEN DfLen(df) ELSE HeaderScanRows
      found == {i \in 0..(n - 1) : Hits(NormRow(DfRow(df, i))) >= MinDateHits}
  IN  IF found = {} THEN NoRow ELSE Min(found)

\* header_dates
HeaderDates(df, r) == NormRow(DfRow(df, r))

\* the increasing sequence of the elements of a set of numbers
RECURSIVE SortedSeq(_)
SortedSeq(S) == IF S = {} THEN <<>> ELSE <<Min(S)>> \o SortedSeq(S \ {Min(S)})

\* mutant: the last seven date columns are taken instead of the first seven
DayCols_LastSeven(df, r) ==
  LET hd == HeaderDates(df, r)
      all == SortedSeq({k - 1 : k \in {i \in 1..Len(hd) : date_pat(hd[i])}})
  IN  SubSeq(all, IF Len(all) < MaxDayCols THEN 1 ELSE Len(all) - MaxDayCols + 1,
             Len(all))

\* day_cols[:7], 0-based column indices
DayCols(df, r) ==
  LET hd == HeaderDates(df, r)
      all == SortedSeq({k - 1 : k \in {i \in 1..Len(hd) : date_pat(hd[i])}})
  IN  SubSeq(all, 1, IF Len(all) < MaxDayCols THEN Len(all) ELSE MaxDayCols)

\* col_cells: the normalised cells of column col below row r
ColCells(df, r, col) ==
  [k \in 1..(DfLen(df) - r - 1) |-> _norm(DfRow(df, r + k)[col + 1])]

\* key = f"{day_name} - {date_txt}" for the j-th day column (j from 0)
DayKey(sheet, r, j) == <<DAYS[j + 1], HeaderDates(sheet, r)[DayCols(sheet, r)[j + 1] + 1]>>

Populated(day) ==
  day.free # <<>> \/ day.sanitary_time # <<>> \/ day.sanitary_day # <<>>

\* score = sum(1 for v in local.values() if v["free"] or ...)
Score(local) == Cardinality({k \in 1..Len(local) : Populated(local[k])})

\* mutant: a tie replaces the retained schedule
Retain_OnTie(b, bs, local, score) ==
  IF score >= bs THEN [best |-> local, best_score |-> score]
  ELSE [best |-> b, best_score |-> bs]

\* mutant: best_score is not updated
Retain_ScoreNotKept(b, bs, local, score) ==
  IF score > bs THEN [best |-> local, best_score |-> bs]
  ELSE [best |-> b, best_score |-> bs]

\* if score > best_score: best = local; best_score = score
Retain(b, bs, local, score) ==
  IF score > bs THEN [best |-> local, best_score |-> score]
  ELSE [best |-> b, best_score |-> bs]

(* ------------------------------ the parser as a function -------------- *)

\* the column loop from cell k on
RECURSIVE ColumnFold(_, _, _, _)
ColumnFold(mode, day, cells, k) ==
  IF k > Len(cells) THEN day
  ELSE LET r == ClassifyCell(mode, day, cells[k]) IN
       ColumnFold(r.mode, r.day, cells, k + 1)

\* one day column: the loop from mode None, then the deduplication
ClassifyColumn(key, cells) == DedupDay(ColumnFold("None", EmptyDay(key), cells, 1))

\* `local` at the end of the body of the sheet loop, for header row r
SheetLocal(sheet, r) ==
  LET hd == HeaderDates(sheet, r)
      dc == DayCols(sheet, r)
      RECURSIVE Days(_)
      Days(k) ==
        IF k = 0 THEN <<>>
        ELSE Append(Days(k - 1),
                    ClassifyColumn(<<DAYS[k], hd[dc[k] + 1]>>, ColCells(sheet, r, dc[k])))
  IN  Days(Len(dc))

\* outcomes that are not schedules; a schedule has at least 3 day entries
Skipped == <<"Skipped">>
ParseFailure == <<"ParseFailure">>
NoResult == <<"NoResult">>

\* the body of the sheet loop for one sheet: Skipped on `continue`, else `local`
SheetOutcome(sheet) ==
  LET r == DateRowIdx(sheet) IN
    IF r = NoRow THEN Skipped
    ELSE IF DayCols(sheet, r) = <<>> THEN Skipped
    ELSE SheetLocal(sheet, r)

\* the sheet loop from sheet k on, over the outcomes of the sheets
RECURSIVE SheetFold(_, _, _, _)
SheetFold(outcomes, k, b, bs) ==
  IF k > Len(outcomes) THEN b
  ELSE IF outcomes[k] = Skipped THEN SheetFold(outcomes, k + 1, b, bs)
  ELSE LET r == Retain(b, bs, outcomes[k], Score(outcomes[k]))
       IN  SheetFold(outcomes, k + 1, r.best, r.best_score)

\* what the call makes of the sheet outcomes: the returned schedule, or
\* ParseFailure
SelectBest(outcomes) ==
  LET b == SheetFold(outcomes, 1, <<>>, -1) IN
    IF b = <<>> THEN ParseFailure ELSE b

\* parse_free_swim_from_xls
ParseWorkbook(book) == SelectBest([k \in 1..Len(book) |-> SheetOutcome(book[k])])

(* ------------------------------ evening filter ------------------------- *)

NoHour == -1

\* \b s \s*(\d{1,2})\s*[:.]\s*(\d{2}) matches line at position p,
\* re.IGNORECASE: the value of group 1, NoHour if there is no match at p
StartHourAt(line, p) ==
  LET q == p + 1 + SpaceRun(line, p + 1)
      k == IF DigitAt(line, q) /\ DigitAt(line, q + 1) THEN 2
           ELSE IF DigitAt(line, q) THEN 1 ELSE 0
      a == q + k + SpaceRun(line, q + k)
      b == a + 1 + SpaceRun(line, a + 1)
  IN  IF /\ LowerChar(line[p]) = "s"
         /\ WordStartAt(line, p)
         /\ k >= 1
         /\ SepAt(line, a)
         /\ DigitAt(line, b)
         /\ DigitAt(line, b + 1)
      THEN IF k = 2 THEN 10 * DigitVal(line[q]) + DigitVal(line[q + 1])
           ELSE DigitVal(line[q])
      ELSE NoHour

\* _start_hour_from_time_line: the hour of the leftmost match, or None
_start_hour_from_time_line(line) ==
  LET at == {p \in 1..Len(line) : StartHourAt(line, p) # NoHour} IN
    IF at = {} THEN NoHour ELSE StartHourAt(line, Min(at))

\* mutant: the threshold hour itself is not kept
KeepEvening_Strict(t) ==
  LET h == _start_hour_from_time_line(t) IN h # NoHour /\ h > EVENING_FROM_HOUR

\* the test of the loop of _filter_evening
KeepEvening(t) ==
  LET h == _start_hour_from_time_line(t) IN h # NoHour /\ h >= EVENING_FROM_HOUR

\* the test of the loop of _filter_evening against a threshold hour h;
\* EVENING_FROM_HOUR is the value the module binds it to
\* mutant: the comparison is turned around
KeepAt_Below(t, h) ==
  LET x == _start_hour_from_time_line(t) IN x # NoHour /\ x <= h

KeepAt(t, h) ==
  LET x == _start_hour_from_time_line(t) IN x # NoHour /\ x >= h

\* mutant: the loop starts at the second entry
FilterAt_SkipsFirst(ts, h) ==
  LET RECURSIVE Loop(_, _)
      Loop(k, acc) ==
        IF k > Len(ts) THEN acc
        ELSE Loop(k + 1, IF KeepAt(ts[k], h) THEN Append(acc, ts[k]) ELSE acc)
  IN  Loop(2, <<>>)

\* the whole loop of _filter_evening: out = [], one append per kept entry
FilterAt(ts, h) ==
  LET RECURSIVE Loop(_, _)
      Loop(k, acc) ==
        IF k > Len(ts) THEN acc
        ELSE Loop(k + 1, IF KeepAt(ts[k], h) THEN Append(acc, ts[k]) ELSE acc)
  IN  Loop(1, <<>>)

_filter_evening(ts) == FilterAt(ts, EVENING_FROM_HOUR)

(* ------------------------------ inputs --------------------------------- *)

\* longest column drawn from the whole cell corpus
MaxCells == 2

\* longest column drawn from the marker / time-line cells only
MaxTimeCells == 4

\* most sheets in a workbook
MaxSheets == 2

\* longest list handed to _filter_evening
MaxTimes == 2

SeqsUpTo(S, n) == UNION {[1..k -> S] : k \in 0..n}

\* the digits of a number below 100, as printed and zero-padded
Dig(n) == <<"0", "1", "2", "3", "4", "5", "6", "7", "8", "9">>[n + 1]
NumText(h) == IF h < 10 THEN <<Dig(h)>> ELSE <<Dig(h \div 10), Dig(h % 10)>>
PadText(h) == <<Dig(h \div 10), Dig(h % 10)>>

Cap(w) == <<"S">> \o Tail(w)

CellFree == Cap(Svobodnoe)
CellSanTime == Cap(Sanitar) \o <<"n", "o", "e">>
CellSanDay == Cap(SanitarnyjDen)
CellT8 == <<"s", " ", "8", ":", "0", "0", " ", "d", "o", " ", "9", ":", "0", "0">>
CellT18 == <<"s", "nbsp", "1", "8", ".", "0", "0">>
CellFreeInline == CellFree \o <<" ", "s", " ", "7", ":", "0", "0">>
CellSanDayInline ==
  Svobodnoe \o <<" ">> \o CellSanDay \o <<" ", "s", " ", "9", ".", "3", "0">>
CellFamily ==
  Cap(Semejnoe) \o <<" ">> \o Svobodnoe \o <<" ", "s", " ", "1", "0", ":", "0", "0">>
CellFamilyDay == Cap(Semejnoe) \o <<" ">> \o SanitarnyjDen
CellOther == <<"p", "e", "r", "e", "r", "y", "v">>

Corpus ==
  {<<>>, CellFree, CellSanTime, CellSanDay, CellT8, CellT18, CellFreeInline,
   CellSanDayInline, CellFamily, CellFamilyDay, CellOther}

TimeCorpus == {CellFree, CellSanTime, CellT8, CellT18}

DateText(a, b) == <<a, b, " ", "m", "a", "r", "t", "a">>

\* header rows of two different weeks
HeaderRow(tag) ==
  IF tag = 1
  THEN <<<<>>, DateText("1", "6"), DateText("1", "7"), DateText("1", "8")>>
  ELSE <<<<>>, DateText("2", "3"), DateText("2", "4"), DateText("2", "5")>>

\* a sheet whose first day column holds the cells col, the others nothing
ColumnSheet(col) ==
  [pad |-> 0,
   rows |-> <<HeaderRow(1)>> \o [k \in 1..Len(col) |-> <<CellOther, col[k], <<>>, <<>>>>]]

\* a sheet with a header row at index pad and its first p day columns filled
WeekSheet(tag, p, pad) ==
  [pad |-> pad,
   rows |-> <<HeaderRow(tag),
              <<CellOther>> \o [k \in 1..3 |-> IF k <= p THEN CellFree ELSE <<>>],
              <<CellOther>> \o [k \in 1..3 |-> IF k <= p THEN CellT18 ELSE <<>>]>>]

\* sheets without a header row: no dates at all, and only two dates in a row
HeaderlessSheet ==
  [pad |-> 0, rows |-> <<<<CellOther, CellFree, <<>>, <<>>>>, <<<<>>, CellT8, <<>>, <<>>>>>>]

TwoDateSheet ==
  [pad |-> 0,
   rows |-> <<<<<<>>, DateText("1", "6"), DateText("1", "7"), CellOther>>,
              <<<<>>, CellFree, CellFree, <<>>>>,
              <<<<>>, CellT8, CellT8, <<>>>>>>]

\* most date cells in a header row
MaxDates == 8

\* a sheet with n date columns and a column without a date after the first:
\* every column holds a marker and a time range of its own
WideSheet(n) ==
  [pad |-> 0,
   rows |-> <<<<DateText("1", "0"), CellOther>>
                \o [k \in 1..(n - 1) |-> DateText("1", Dig(k))],
              [k \in 1..(n + 1) |-> CellFree],
              [k \in 1..(n + 1) |-> <<"s", " ">> \o NumText(10 + k) \o <<":", "0", "0">>]>>]

WideBooks == {<<WideSheet(n)>> : n \in MinDateHits..MaxDates}

\* longest second column of a two-column sheet
MaxPairCells == 2

\* the cell k of a column, empty below its end
CellOr(col, k) == IF k <= Len(col) THEN col[k] ELSE <<>>

\* a sheet whose first two day columns hold the cells c1 and c2
PairSheet(c1, c2) ==
  [pad |-> 0,
   rows |-> <<HeaderRow(1)>>
            \o [k \in 1..(IF Len(c1) < Len(c2) THEN Len(c2) ELSE Len(c1)) |->
                  <<CellOther, CellOr(c1, k), CellOr(c2, k), <<>>>>]]

\* first columns that end in each of the three modes
PairFirst == {<<CellFree, CellT8>>, <<CellSanTime>>, <<CellSanDayInline>>}

PairBooks ==
  {<<PairSheet(c1, c2)>> :
     c1 \in PairFirst,
     c2 \in SeqsUpTo({CellT8, CellT18, CellOther, CellFree}, MaxPairCells)}

\* most cells between a marker and the time range below it
MaxGap == 2

\* columns with a marker, cells that are neither marker nor time range, and
\* a time range
RoutingBooks ==
  {<<ColumnSheet(<<m>> \o gap \o <<t>>)>> :
     m \in {CellFree, CellSanTime, CellSanDayInline},
     gap \in SeqsUpTo({<<>>, CellOther, CellFamily, CellFamilyDay}, MaxGap),
     t \in {CellT8, CellT18}}

\* a sheet with, from index pad on: a marker row, a row with two dates and
\* a time range, a header row, two rows of cells, a second header row and
\* two more rows of cells
StackedSheet(pad) ==
  [pad |-> pad,
   rows |-> <<<<CellOther, CellFree, <<>>, <<>>>>,
              <<<<>>, CellT18, DateText("1", "6"), DateText("1", "7")>>,
              HeaderRow(1),
              <<CellOther, CellSanTime, <<>>, <<>>>>,
              <<<<>>, CellT18, <<>>, <<>>>>,
              HeaderRow(2),
              <<CellOther, CellFree, <<>>, <<>>>>,
              <<<<>>, CellT8, <<>>, <<>>>>>>]

\* the first header row at index 2, 59 and 60
StackedBooks ==
  {<<StackedSheet(pad)>> : pad \in {0, HeaderScanRows - 3, HeaderScanRows - 2}}

SheetKinds ==
  {HeaderlessSheet, TwoDateSheet,
   WeekSheet(1, 2, HeaderScanRows), WeekSheet(2, 1, HeaderScanRows - 1)}
  \cup {WeekSheet(1, p, 0) : p \in {0, 2, 3}}
  \cup {WeekSheet(2, 2, 0)}

ColumnBooks ==
  {<<ColumnSheet(col)>> :
     col \in SeqsUpTo(Corpus, MaxCells) \cup SeqsUpTo(TimeCorpus, MaxTimeCells)}

SelectionBooks == SeqsUpTo(SheetKinds, MaxSheets)

Workbooks ==
  ColumnBooks \cup SelectionBooks \cup WideBooks \cup PairBooks \cup RoutingBooks
  \cup StackedBooks

Hours == {7, 17, 18, 19, 23}

\* largest threshold hour the filter is tried with
MaxThreshold == 24
ThresholdHours == 0..MaxThreshold

\* time lines that start at hour h, in three spellings
EntryText(h, style) ==
  CASE style = "plain" ->
         <<"s", " ">> \o PadText(h) \o <<":", "0", "0", " ", "s", " ", "1", "9", ":", "0", "0">>
    [] style = "upper" -> <<"S">> \o NumText(h) \o <<".", "3", "0">>
    [] style = "spaced" ->
         <<"d", "o", " ", "s", " ", " ">> \o NumText(h) \o <<" ", ":", " ", "1", "5">>

\* lines without a start hour: no "s", "s" inside a word, no minutes, empty
NoStartTexts ==
  {<<"d", "o", " ", "2", "0", ":", "0", "0">>,
   <<"n", "a", "s", " ", "1", "9", ":", "0", "0">>,
   <<"s", " ", "2", "0">>,
   <<>>}

\* the entries handed to the filter, each with the start hour it spells
TimeEntries ==
  {[text |-> EntryText(h, style), hour |-> h] :
     h \in Hours, style \in {"plain", "upper", "spaced"}}
  \cup {[text |-> t, hour |-> NoHour] : t \in NoStartTexts}

(* ------------------------------ state ---------------------------------- *)

VARIABLES
  wb,            \* sheets: the workbook, in iteration order
  pc,            \* position in parse_free_swim_from_xls / _filter_evening
  si,            \* index of the current sheet in wb (from 1)
  date_row_idx,  \* header row of the current sheet
  day_cols,      \* day_cols[:7] of the current sheet, 0-based column indices
  j,             \* index of the current day column in day_cols[:7] (from 0)
  col_cells,     \* the normalised cells below the current day's header cell
  ci,            \* index of the next cell of col_cells (from 1)
  mode,          \* "None" / "free" / "sanitary_time" / "sanitary_day"
  local,         \* the schedule of the current sheet: a sequence of day entries
  best,          \* the retained schedule
  best_score,
  result,        \* the returned schedule, or ParseFailure
  times,         \* the argument of _filter_evening
  expect,        \* for each entry of times, the start hour it was written with
  ti,            \* index of the next entry of times (from 1)
  out,           \* the list _filter_evening builds
  free_swim,     \* the schedule object handed to build_message_html
  given,         \* the value of that schedule before the first call
  calls,         \* evening_only of every call of build_message_html so far
  evening_only,  \* of the call in progress or just returned
  di,            \* index of the next day of free_swim (from 1)
  parts,         \* the lines build_message_html has appended
  message,       \* the lines of the string the last call returned
  updates,       \* the updates Telegram holds: update k has update_id k
  offset,        \* run_bot's offset
  batch,         \* the update ids of data["result"] the for loop has not taken
  upd,           \* the update_id of the update the for loop is at
  dispatched,    \* for each update_id, how often a branch of the loop body ran on it
  steps,         \* the calls of the current handle_button that have returned
  sent,          \* the messages delivered: <<update_id, kind, chat>>
  failed,        \* the update ids whose callback branch raised
  unreported,    \* the update ids whose error message could not be sent
  finished       \* the update ids whose loop body is over

vars ==
  <<wb, pc, si, date_row_idx, day_cols, j, col_cells, ci, mode, local, best,
    best_score, result, times, expect, ti, out, free_swim, given, calls,
    evening_only, di, parts, message, updates, offset, batch, upd, dispatched,
    steps, sent, failed, unreported, finished>>

parseVars ==
  <<wb, si, date_row_idx, day_cols, j, col_cells, ci, mode, local, best,
    best_score, result>>
filterVars == <<times, expect, ti, out>>
renderVars == <<free_swim, given, calls, evening_only, di, parts, message>>
botVars ==
  <<updates, offset, batch, upd, dispatched, steps, sent, failed, unreported,
    finished>>
extVars == <<renderVars, botVars>>

\* most updates Telegram receives
MaxUpdates == 2

\* the count of dispatches of an update is kept up to this value
DispatchCap == 2

\* run_bot has not been started
BotIdle ==
  /\ updates = <<>>
  /\ offset = 0
  /\ batch = <<>>
  /\ upd = 0
  /\ dispatched = [u \in 1..MaxUpdates |-> 0]
  /\ steps = {}
  /\ sent = {}
  /\ failed = {}
  /\ unreported = {}
  /\ finished = {}

\* build_message_html has not been called
RenderIdle ==
  /\ free_swim = <<>>
  /\ given = <<>>
  /\ calls = <<>>
  /\ evening_only = FALSE
  /\ di = 1
  /\ parts = <<>>
  /\ message = <<>>

df == wb[si]

(* ------------------------------ parse_free_swim_from_xls --------------- *)

ParseInit ==
  /\ pc = "sheet"
  /\ si = 1
  /\ date_row_idx = NoRow
  /\ day_cols = <<>>
  /\ j = 0
  /\ col_cells = <<>>
  /\ ci = 1
  /\ mode = "None"
  /\ local = <<>>
  /\ best = <<>>
  /\ best_score = -1
  /\ result = NoResult

\* the top of `for _, df in sheets.items()`: scan for the header row; without
\* one (or without day columns) continue, else local = {} and the column
\* loop starts
FindHeader ==
  /\ pc = "sheet"
  /\ si <= Len(wb)
  /\ LET r == DateRowIdx(df) IN
       IF r = NoRow \/ DayCols(df, r) = <<>>
       THEN /\ si' = si + 1
            /\ UNCHANGED <<pc, date_row_idx, day_cols, j, local>>
       ELSE /\ date_row_idx' = r
            /\ day_cols' = DayCols(df, r)
            /\ local' = <<>>
            /\ j' = 0
            /\ pc' = "column"
            /\ si' = si
  /\ UNCHANGED <<wb, col_cells, ci, mode, best, best_score, result>>
  /\ UNCHANGED <<filterVars, extVars>>

\* mutant: mode is not reset at the top of a column
StartColumn_KeepsMode ==
  /\ pc = "column"
  /\ j < Len(day_cols)
  /\ local' = Append(local, EmptyDay(DayKey(df, date_row_idx, j)))
  /\ col_cells' = ColCells(df, date_row_idx, day_cols[j + 1])
  /\ mode' = mode
  /\ ci' = 1
  /\ pc' = "cell"
  /\ UNCHANGED <<wb, si, date_row_idx, day_cols, j, best, best_score, result>>
  /\ UNCHANGED <<filterVars, extVars>>

\* local[key] = {...}; col_cells = ...; mode = None
StartColumn ==
  /\ pc = "column"
  /\ j < Len(day_cols)
  /\ local' = Append(local, EmptyDay(DayKey(df, date_row_idx, j)))
  /\ col_cells' = ColCells(df, date_row_idx, day_cols[j + 1])
  /\ mode' = "None"
  /\ ci' = 1
  /\ pc' = "cell"
  /\ UNCHANGED <<wb, si, date_row_idx, day_cols, j, best, best_score, result>>
  /\ UNCHANGED <<filterVars, extVars>>

\* one iteration of `for c in col_cells`
ProcessCell ==
  /\ pc = "cell"
  /\ ci <= Len(col_cells)
  /\ LET r == ClassifyCell(mode, local[j + 1], col_cells[ci]) IN
       /\ mode' = r.mode
       /\ local' = [local EXCEPT ![j + 1] = r.day]
  /\ ci' = ci + 1
  /\ UNCHANGED <<wb, pc, si, date_row_idx, day_cols, j, col_cells, best,
                 best_score, result>>
  /\ UNCHANGED <<filterVars, extVars>>

\* the end of the column: deduplicate preserving order
DedupColumn ==
  /\ pc = "cell"
  /\ ci > Len(col_cells)
  /\ local' = [local EXCEPT ![j + 1] = DedupDay(@)]
  /\ j' = j + 1
  /\ pc' = "column"
  /\ UNCHANGED <<wb, si, date_row_idx, day_cols, col_cells, ci, mode, best,
                 best_score, result>>
  /\ UNCHANGED <<filterVars, extVars>>

\* the end of the sheet: score it and keep it if it is strictly better
ScoreSheet ==
  /\ pc = "column"
  /\ j >= Len(day_cols)
  /\ LET r == Retain(best, best_score, local, Score(local)) IN
       /\ best' = r.best
       /\ best_score' = r.best_score
  /\ si' = si + 1
  /\ pc' = "sheet"
  /\ UNCHANGED <<wb, date_row_idx, day_cols, j, col_cells, ci, mode, local, result>>
  /\ UNCHANGED <<filterVars, extVars>>

\* after the sheet loop: raise if not best, else return best
Finish ==
  /\ pc = "sheet"
  /\ si > Len(wb)
  /\ IF best = <<>>
     THEN result' = ParseFailure /\ pc' = "raised"
     ELSE result' = best /\ pc' = "returned"
  /\ UNCHANGED <<wb, si, date_row_idx, day_cols, j, col_cells, ci, mode, local,
                 best, best_score>>
  /\ UNCHANGED <<filterVars, extVars>>

Init ==
  /\ wb \in Workbooks
  /\ ParseInit
  /\ times = <<>>
  /\ expect = <<>>
  /\ ti = 1
  /\ out = <<>>
  /\ RenderIdle
  /\ BotIdle

Next ==
  \/ FindHeader
  \/ StartColumn
  \/ ProcessCell
  \/ DedupColumn
  \/ ScoreSheet
  \/ Finish

Spec == Init /\ [][Next]_vars

(* ------------------------------ _filter_evening ------------------------ *)

\* one iteration of `for t in times`
FilterEntry ==
  /\ pc = "filter"
  /\ ti <= Len(times)
  /\ out' = IF KeepEvening(times[ti]) THEN Append(out, times[ti]) ELSE out
  /\ ti' = ti + 1
  /\ UNCHANGED <<pc, times, expect>>
  /\ UNCHANGED <<parseVars, extVars>>

\* return out
FilterReturn ==
  /\ pc = "filter"
  /\ ti > Len(times)
  /\ pc' = "filtered"
  /\ UNCHANGED <<filterVars, extVars>>
  /\ UNCHANGED <<parseVars, extVars>>

InitFilter ==
  /\ wb = <<>>
  /\ si = 1
  /\ date_row_idx = NoRow
  /\ day_cols = <<>>
  /\ j = 0
  /\ col_cells = <<>>
  /\ ci = 1
  /\ mode = "None"
  /\ local = <<>>
  /\ best = <<>>
  /\ best_score = -1
  /\ result = NoResult
  /\ pc = "filter"
  /\ \E es \in SeqsUpTo(TimeEntries, MaxTimes) :
       /\ times = [k \in 1..Len(es) |-> es[k].text]
       /\ expect = [k \in 1..Len(es) |-> es[k].hour]
  /\ ti = 1
  /\ out = <<>>
  /\ RenderIdle
  /\ BotIdle

NextFilter == FilterEntry \/ FilterReturn

SpecFilter == InitFilter /\ [][NextFilter]_vars

(* ------------------------------ build_message_html -------------------- *)

\* A line of the message is a tuple: <<"day", key>> for f"<b>{day_key}</b>",
\* <<"label", category>> for a category heading, <<"entry", text>> for a
\* time range, <<"none">> for the no-data line and <<"blank">> for "".
BlankLine == <<"blank">>
NoDataLine == <<"none">>

\* parts.append(label); parts.extend(entries) if entries else the no-data line
Block(cat, entries) ==
  <<<<"label", cat>>>>
  \o (IF entries # <<>>
      THEN [k \in 1..Len(entries) |-> <<"entry", entries[k]>>]
      ELSE <<NoDataLine>>)

\* "\n".join(parts).strip(): the blank lines at either end are dropped
RECURSIVE StripLines(_)
StripLines(ls) ==
  IF ls = <<>> THEN <<>>
  ELSE IF Head(ls) = BlankLine THEN StripLines(Tail(ls))
  ELSE IF ls[Len(ls)] = BlankLine THEN StripLines(SubSeq(ls, 1, Len(ls) - 1))
  ELSE ls

\* the schedules handed to build_message_html
MaxDays == 2
MaxCalls == 2

DayPayloads ==
  {[free |-> f, sanitary_time |-> st, sanitary_day |-> sd] :
     f \in {<<>>, <<EntryText(7, "plain"), EntryText(19, "upper")>>,
             <<EntryText(18, "plain")>>},
     st \in {<<>>, <<EntryText(19, "spaced")>>},
     sd \in {<<>>, <<EntryText(7, "upper")>>}}

Schedules ==
  UNION {{[k \in 1..n |->
             [key |-> <<DAYS[k], DateText("1", Dig(5 + k))>>,
              free |-> ps[k].free,
              sanitary_time |-> ps[k].sanitary_time,
              sanitary_day |-> ps[k].sanitary_day]] :
            ps \in [1..n -> DayPayloads]} : n \in 0..MaxDays}

\* a call of build_message_html(free_swim, evening_only): parts = []
BuildMessage ==
  /\ pc \in {"schedule", "rendered"}
  /\ Len(calls) < MaxCalls
  /\ \E e \in BOOLEAN :
       /\ evening_only' = e
       /\ calls' = Append(calls, e)
  /\ parts' = <<>>
  /\ di' = 1
  /\ pc' = "render"
  /\ UNCHANGED <<free_swim, given, message>>
  /\ UNCHANGED <<parseVars, filterVars, botVars>>

\* mutant: the filtered lists are stored back into the payload
RenderDay_InPlace ==
  /\ pc = "render"
  /\ di <= Len(free_swim)
  /\ LET payload == free_swim[di]
         free_times == IF evening_only THEN _filter_evening(payload.free)
                       ELSE payload.free
         sanitary_time == IF evening_only
                          THEN _filter_evening(payload.sanitary_time)
                          ELSE payload.sanitary_time
         sanitary_day == IF evening_only
                         THEN _filter_evening(payload.sanitary_day)
                         ELSE payload.sanitary_day
     IN  /\ parts' = parts \o <<<<"day", payload.key>>>>
                        \o Block("free", free_times)
                        \o Block("sanitary_time", sanitary_time)
                        \o Block("sanitary_day", sanitary_day)
                        \o <<BlankLine>>
         /\ free_swim' = [free_swim EXCEPT ![di] =
                            [key |-> payload.key,
                             free |-> free_times,
                             sanitary_time |-> sanitary_time,
                             sanitary_day |-> sanitary_day]]
  /\ di' = di + 1
  /\ UNCHANGED <<pc, given, calls, evening_only, message>>
  /\ UNCHANGED <<parseVars, filterVars, botVars>>

\* one iteration of `for day_key, payload in free_swim.items()`: the three
\* locals are bound to the payload's lists, rebound to the new lists
\* _filter_evening returns if evening_only, and only read after that
RenderDay ==
  /\ pc = "render"
  /\ di <= Len(free_swim)
  /\ LET payload == free_swim[di]
         free_times == IF evening_only THEN _filter_evening(payload.free)
                       ELSE payload.free
         sanitary_time == IF evening_only
                          THEN _filter_evening(payload.sanitary_time)
                          ELSE payload.sanitary_time
         sanitary_day == IF evening_only
                         THEN _filter_evening(payload.sanitary_day)
                         ELSE payload.sanitary_day
     IN  /\ parts' = parts \o <<<<"day", payload.key>>>>
                        \o Block("free", free_times)
                        \o Block("sanitary_time", sanitary_time)
                        \o Block("sanitary_day", sanitary_day)
                        \o <<BlankLine>>
         /\ free_swim' = free_swim
  /\ di' = di + 1
  /\ UNCHANGED <<pc, given, calls, evening_only, message>>
  /\ UNCHANGED <<parseVars, filterVars, botVars>>

\* return "\n".join(parts).strip()
RenderReturn ==
  /\ pc = "render"
  /\ di > Len(free_swim)
  /\ message' = StripLines(parts)
  /\ pc' = "rendered"
  /\ UNCHANGED <<free_swim, given, calls, evening_only, di, parts>>
  /\ UNCHANGED <<parseVars, filterVars, botVars>>

InitRender ==
  /\ wb = <<>>
  /\ si = 1
  /\ date_row_idx = NoRow
  /\ day_cols = <<>>
  /\ j = 0
  /\ col_cells = <<>>
  /\ ci = 1
  /\ mode = "None"
  /\ local = <<>>
  /\ best = <<>>
  /\ best_score = -1
  /\ result = NoResult
  /\ times = <<>>
  /\ expect = <<>>
  /\ ti = 1
  /\ out = <<>>
  /\ pc = "schedule"
  /\ free_swim \in Schedules
  /\ given = free_swim
  /\ calls = <<>>
  /\ evening_only = FALSE
  /\ di = 1
  /\ parts = <<>>
  /\ message = <<>>
  /\ BotIdle

NextRender == BuildMessage \/ RenderDay \/ RenderReturn

SpecRender == InitRender /\ [][NextRender]_vars

(* ------------------------------ run_bot -------------------------------- *)

\* An update is [kind, chat]: "start" is a message with the text /start,
\* "text" any other message, "get" and "evening" a callback query with the
\* data BTN_GET and BTN_EVENING, "other" a callback query with other data.
Kinds == {"start", "text", "get", "evening", "other"}
Chats == {1, 2}

kind == updates[upd].kind
chat_id == updates[upd].chat

\* the variables run_bot leaves alone
otherVars == <<parseVars, filterVars, free_swim, given, calls, di, parts, message>>

\* a user sends a message or presses a button
Arrive ==
  /\ pc # "stopped"
  /\ Len(updates) < MaxUpdates
  /\ \E k \in Kinds, c \in Chats : updates' = Append(updates, [kind |-> k, chat |-> c])
  /\ UNCHANGED <<pc, evening_only, offset, batch, upd, dispatched, steps, sent,
                 failed, unreported, finished>>
  /\ UNCHANGED otherVars

\* data = get_updates(offset): the updates with update_id >= offset, in
\* ascending order, or an exception
GetUpdates ==
  /\ pc = "poll"
  /\ \/ /\ batch' = [k \in 1..(Len(updates) - (IF offset < 1 THEN 1 ELSE offset) + 1) |->
                        (IF offset < 1 THEN 1 ELSE offset) + k - 1]
        /\ pc' = "next"
     \/ /\ batch' = <<>>
        /\ pc' = "sleep"
  /\ UNCHANGED <<evening_only, updates, offset, upd, dispatched, steps, sent,
                 failed, unreported, finished>>
  /\ UNCHANGED otherVars

\* mutant: offset is set to the update_id itself
TakeUpdate_SameId ==
  /\ pc = "next"
  /\ IF batch = <<>>
     THEN pc' = "poll" /\ UNCHANGED <<batch, upd, offset>>
     ELSE /\ upd' = Head(batch)
          /\ batch' = Tail(batch)
          /\ offset' = Head(batch)
          /\ pc' = "dispatch"
  /\ UNCHANGED <<evening_only, updates, dispatched, steps, sent, failed,
                 unreported, finished>>
  /\ UNCHANGED otherVars

\* the top of `for upd in data.get("result", [])`: offset = update_id + 1,
\* or the end of the loop
TakeUpdate ==
  /\ pc = "next"
  /\ IF batch = <<>>
     THEN pc' = "poll" /\ UNCHANGED <<batch, upd, offset>>
     ELSE /\ upd' = Head(batch)
          /\ batch' = Tail(batch)
          /\ offset' = Head(batch) + 1
          /\ pc' = "dispatch"
  /\ UNCHANGED <<evening_only, updates, dispatched, steps, sent, failed,
                 unreported, finished>>
  /\ UNCHANGED otherVars

\* the dispatch count of the current update, one more
Counted ==
  [dispatched EXCEPT ![upd] = IF @ < DispatchCap THEN @ + 1 ELSE @]

\* the branches of the loop body: handle_start for /start, nothing for
\* another message, handle_button for the two buttons, tg_answer_callback
\* for another callback
Dispatch ==
  /\ pc = "dispatch"
  /\ dispatched' = Counted
  /\ steps' = {}
  /\ CASE kind = "start" ->
            \/ /\ sent' = sent \cup {<<upd, "prompt", chat_id>>}
               /\ pc' = "next"
               /\ UNCHANGED <<batch, failed, evening_only>>
            \/ /\ pc' = "sleep"
               /\ batch' = <<>>
               /\ UNCHANGED <<sent, failed, evening_only>>
       [] kind = "text" ->
            /\ pc' = "next"
            /\ UNCHANGED <<batch, sent, failed, evening_only>>
       [] kind \in {"get", "evening"} ->
            /\ evening_only' = (kind = "evening")
            /\ pc' = "answer"
            /\ UNCHANGED <<batch, sent, failed>>
       [] kind = "other" ->
            \/ /\ pc' = "next"
               /\ UNCHANGED <<batch, sent, failed, evening_only>>
            \/ /\ pc' = "report"
               /\ failed' = failed \cup {upd}
               /\ UNCHANGED <<batch, sent, evening_only>>
  /\ finished' = IF pc' \in {"next", "sleep"} THEN finished \cup {upd} ELSE finished
  /\ UNCHANGED <<updates, offset, upd, unreported>>
  /\ UNCHANGED otherVars

\* a call of handle_button that returns (to the position after) or raises
\* (to the except clause of the callback branch)
Call(name, after) ==
  /\ \/ /\ steps' = steps \cup {name}
        /\ pc' = after
        /\ UNCHANGED failed
     \/ /\ pc' = "report"
        /\ failed' = failed \cup {upd}
        /\ UNCHANGED steps
  /\ UNCHANGED <<evening_only, updates, offset, batch, upd, dispatched, sent,
                 unreported, finished>>
  /\ UNCHANGED otherVars

\* tg_answer_callback(callback_id, ...)
Answer == pc = "answer" /\ Call("answer", "link")

\* find_xls_link()
FindLink == pc = "link" /\ Call("link", "download")

\* download_xls(xls_url)
Download == pc = "download" /\ Call("download", "parse")

\* parse_free_swim_from_xls(xls_bytes) returns or raises; build_message_html
Parse == pc = "parse" /\ Call("parse", "send")

\* tg_send_message(chat_id, msg, ...) at the end of handle_button
Send ==
  /\ pc = "send"
  /\ \/ /\ sent' = sent \cup {<<upd, "schedule", chat_id>>}
        /\ steps' = steps \cup {"send"}
        /\ pc' = "next"
        /\ finished' = finished \cup {upd}
        /\ UNCHANGED failed
     \/ /\ pc' = "report"
        /\ failed' = failed \cup {upd}
        /\ UNCHANGED <<sent, steps, finished>>
  /\ UNCHANGED <<evening_only, updates, offset, batch, upd, dispatched, unreported>>
  /\ UNCHANGED otherVars

\* mutant: the except clause sends nothing
Report_Silent ==
  /\ pc = "report"
  /\ pc' = "next"
  /\ UNCHANGED <<sent, batch, unreported>>
  /\ finished' = finished \cup {upd}
  /\ UNCHANGED <<evening_only, updates, offset, upd, dispatched, steps, failed>>
  /\ UNCHANGED otherVars

\* except Exception as e: tg_send_message(chat_id, error text): delivered,
\* or raising into the except clause of the while loop
Report ==
  /\ pc = "report"
  /\ \/ /\ sent' = sent \cup {<<upd, "error", chat_id>>}
        /\ pc' = "next"
        /\ UNCHANGED <<batch, unreported>>
     \/ /\ unreported' = unreported \cup {upd}
        /\ pc' = "sleep"
        /\ batch' = <<>>
        /\ UNCHANGED sent
  /\ finished' = finished \cup {upd}
  /\ UNCHANGED <<evening_only, updates, offset, upd, dispatched, steps, failed>>
  /\ UNCHANGED otherVars

\* except Exception: print, time.sleep(3), and the while loop goes round
LoopError ==
  /\ pc = "sleep"
  /\ pc' = "poll"
  /\ UNCHANGED <<evening_only, botVars>>
  /\ UNCHANGED otherVars

\* except KeyboardInterrupt: break
Interrupt ==
  /\ pc \in {"poll", "next", "dispatch", "answer", "link", "download", "parse",
              "send", "report"}
  /\ pc' = "stopped"
  /\ UNCHANGED <<evening_only, botVars>>
  /\ UNCHANGED otherVars

InitBot ==
  /\ wb = <<>>
  /\ si = 1
  /\ date_row_idx = NoRow
  /\ day_cols = <<>>
  /\ j = 0
  /\ col_cells = <<>>
  /\ ci = 1
  /\ mode = "None"
  /\ local = <<>>
  /\ best = <<>>
  /\ best_score = -1
  /\ result = NoResult
  /\ times = <<>>
  /\ expect = <<>>
  /\ ti = 1
  /\ out = <<>>
  /\ RenderIdle
  /\ BotIdle
  /\ pc = "poll"

NextBot ==
  \/ Arrive
  \/ GetUpdates
  \/ TakeUpdate
  \/ Dispatch
  \/ Answer
  \/ FindLink
  \/ Download
  \/ Parse
  \/ Send
  \/ Report
  \/ LoopError
  \/ Interrupt

SpecBot == InitBot /\ [][NextBot]_vars

(* ------------------------------ properties ----------------------------- *)

Done == pc \in {"returned", "raised"}

\* every time range of a schedule (a sequence of day entries)
RangesOf(sched) ==
  UNION {{sched[k][cat][n] : n \in 1..Len(sched[k][cat])} :
           k \in 1..Len(sched), cat \in {"free", "sanitary_time", "sanitary_day"}}

\* t reads "s D:..." with a single-digit hour D
SingleDigitStart(t) ==
  LET q == 2 + SpaceRun(t, 2) IN
    Len(t) >= 1 /\ t[1] = "s" /\ DigitAt(t, q) /\ OccursAt(t, <<":">>, q + 1)

\* C1: no time range of the returned schedule starts with a single-digit
\* hour "s D:MM"; every one the classifier emits, from a time-line cell or
\* from the inline time of a marker cell, reads "s 0D:MM".
C1_StartHourZeroPadded ==
  pc = "returned" => \A t \in RangesOf(result) : ~SingleDigitStart(t)

\* the sheet has a row among its first 60 with at least 3 date cells
HasHeaderRow(sheet) ==
  \E i \in 0..(HeaderScanRows - 1) :
    i < DfLen(sheet) /\ Hits(NormRow(DfRow(sheet, i))) >= MinDateHits

\* C2: when every sheet has no date-header row or has score 0, the call
\* fails with ParseFailure and returns no schedule.
C2_FailsWithoutPopulatedDay ==
  (Done /\ \A k \in 1..Len(wb) :
             ~HasHeaderRow(wb[k]) \/ Score(SheetOutcome(wb[k])) = 0)
    => (pc = "raised" /\ result = ParseFailure)

\* the cell the next ProcessCell step reads
AtCell == pc = "cell" /\ ci <= Len(col_cells)
cell == col_cells[ci]
today == local[j + 1]

IsFamilyCell(c) == Contains(lower(c), Semejnoe)
IsSanitaryDayCell(c) == Contains(lower(c), SanitarnyjDen) /\ ~IsFamilyCell(c)

\* s is t with at most one entry appended, and one exactly when grow
Extends(s, t, grow) ==
  /\ Len(t) = Len(s) + (IF grow THEN 1 ELSE 0)
  /\ SubSeq(t, 1, Len(s)) = s

\* C3: from any mode, a cell that contains "sanitarnyj den" and not
\* "semejnoe" sets the mode to sanitary_day; its inline time, if any, goes
\* into sanitary_day only; free and sanitary_time are left as they were.
C3_SanitaryDayPrecedence ==
  [][(AtCell /\ IsSanitaryDayCell(cell))
       => /\ mode' = "sanitary_day"
          /\ local'[j + 1].free = today.free
          /\ local'[j + 1].sanitary_time = today.sanitary_time
          /\ Extends(today.sanitary_day, local'[j + 1].sanitary_day,
                     InlineTime(cell) # NoMatch)]_vars

\* a cell with "sanitarnyj den", "svobodnoe" and an inline time has been
\* read in mode free
C3_Witness ==
  /\ pc = "cell"
  /\ ci = 3
  /\ col_cells[1] = _norm(CellFree)
  /\ col_cells[2] = _norm(CellSanDayInline)
  /\ mode = "sanitary_day"
  /\ Len(today.sanitary_day) = 1
  /\ today.free = <<>>

RemoveAt(s, i) == SubSeq(s, 1, i - 1) \o SubSeq(s, i + 1, Len(s))

\* C4: a cell that contains "semejnoe" leaves the mode and the three
\* sequences as they are, whatever else it contains, and the finished
\* column equals the column classified without that cell.
C4_FamilyCellIgnored ==
  /\ [][(AtCell /\ IsFamilyCell(cell)) => (mode' = mode /\ local' = local)]_vars
  /\ [](pc = "column" /\ j >= 1
          => \A i \in 1..Len(col_cells) :
               IsFamilyCell(col_cells[i])
                 => local[j] = ClassifyColumn(local[j].key, RemoveAt(col_cells, i)))

\* a column with a sanitary-time marker and then a family cell that also
\* holds the free-swim marker and a time has been finished with nothing
\* emitted
C4_Witness ==
  /\ pc = "column"
  /\ j = 1
  /\ Len(col_cells) = 2
  /\ col_cells[1] = _norm(CellSanTime)
  /\ col_cells[2] = _norm(CellFamily)
  /\ local[1] = EmptyDay(local[1].key)

NoDuplicates(s) == \A a, b \in 1..Len(s) : s[a] = s[b] => a = b

\* the entries of s that no earlier position holds, in the order of s
FirstOccurrences(s) ==
  LET idx == SortedSeq({i \in 1..Len(s) : \A k \in 1..(i - 1) : s[k] # s[i]})
  IN  [n \in 1..Len(idx) |-> s[idx[n]]]

\* C5: the deduplication step leaves, for each category, the emitted
\* entries with every occurrence after the first removed, and no sequence
\* of a finished day, of the retained or of the returned schedule holds a
\* duplicate.
C5_Deduplicated ==
  /\ [][(pc = "cell" /\ ci > Len(col_cells))
          => \A cat \in {"free", "sanitary_time", "sanitary_day"} :
               local'[j + 1][cat] = FirstOccurrences(today[cat])]_vars
  /\ [](\A cat \in {"free", "sanitary_time", "sanitary_day"} :
          /\ \A k \in 1..Len(best) : NoDuplicates(best[k][cat])
          /\ pc = "returned" => \A k \in 1..Len(result) : NoDuplicates(result[k][cat])
          /\ pc = "column" => \A k \in 1..Len(local) : NoDuplicates(local[k][cat]))

\* a column that emitted a, b, a into free has been deduplicated to a, b
C5_Witness ==
  /\ pc = "column"
  /\ j = 1
  /\ Len(col_cells) = 4
  /\ col_cells[2] = col_cells[4]
  /\ col_cells[3] # col_cells[2]
  /\ Len(local[1].free) = 2
  /\ local[1].free[1] = PadHour(col_cells[2], 1)

\* the schedule of each sheet of the workbook, Skipped for a skipped sheet
RECURSIVE OutcomesUpTo(_)
OutcomesUpTo(n) ==
  IF n = 0 THEN <<>> ELSE Append(OutcomesUpTo(n - 1), SheetOutcome(wb[n]))

Outcomes == OutcomesUpTo(Len(wb))

\* the sheets of the workbook that have a date-header row, by index
Headered == {k \in 1..Len(wb) : HasHeaderRow(wb[k])}

\* the headered sheets of oc that attain the highest score among them
TopOf(oc, hs) == {k \in hs : \A m \in hs : Score(oc[m]) <= Score(oc[k])}

TopSheets == TopOf(Outcomes, Headered)

\* C6: the returned schedule is the result of the first sheet, in iteration
\* order, whose score is the maximum among the sheets with a date-header
\* row; at the end of a sheet the retained schedule is replaced exactly when
\* the sheet's score is strictly greater than the retained score.
C6_FirstBestSheet ==
  /\ [](pc = "returned"
          => \A oc \in {Outcomes} : \A hs \in {Headered} :
               \A top \in {TopOf(oc, hs)} : top # {} /\ result = oc[Min(top)])
  /\ [][(pc = "column" /\ j >= Len(day_cols))
          => IF Score(local) > best_score
             THEN best' = local /\ best_score' = Score(local)
             ELSE best' = best /\ best_score' = best_score]_vars

\* two sheets of different weeks tie on a positive score: the first is returned
C6_Witness ==
  /\ pc = "returned"
  /\ Len(wb) = 2
  /\ TopSheets = {1, 2}
  /\ Score(Outcomes[1]) = 2
  /\ Outcomes[1] # Outcomes[2]
  /\ result = Outcomes[1]

\* the orders in which n sheets can be iterated
SheetOrders(n) ==
  {f \in [1..n -> 1..n] : \A a, b \in 1..n : f[a] = f[b] => a = b}

\* C7: when exactly one sheet attains the highest score, the call returns
\* that sheet's schedule, and so does the call on every other iteration
\* order of the same sheets.
C7_OrderIndependent ==
  Done => \A oc \in {Outcomes} : \A hs \in {Headered} :
            \A top \in {TopOf(oc, hs)} :
              Cardinality(top) = 1
                => /\ pc = "returned"
                   /\ \A k \in top : result = oc[k]
                   /\ \A f \in SheetOrders(Len(wb)) :
                        SelectBest([k \in 1..Len(wb) |-> oc[f[k]]]) = result

\* the sheet with the highest score comes first and a lower-scoring
\* sheet after it
C7_Witness ==
  /\ pc = "returned"
  /\ Len(wb) = 2
  /\ TopSheets = {1}
  /\ Headered = {1, 2}
  /\ Score(Outcomes[2]) >= 1
  /\ result = Outcomes[1]

\* C8: when no sheet has a row among its first 60 with at least 3 date
\* cells, the call raises ParseFailure and returns no schedule; the
\* workbook without sheets is such a workbook.
C8_NoHeaderFails ==
  (Done /\ Headered = {}) => (pc = "raised" /\ result = ParseFailure)

\* the call has raised on a workbook whose only dated rows are a row with
\* two dates and a header row at index 60
C8_Witness ==
  /\ pc = "raised"
  /\ Len(wb) = 2
  /\ wb[1] = TwoDateSheet
  /\ wb[2].pad = HeaderScanRows
  /\ result = ParseFailure

\* the workbook without its headerless sheets, in the same order
RECURSIVE HeaderedOnly(_)
HeaderedOnly(book) ==
  IF book = <<>> THEN <<>>
  ELSE IF HasHeaderRow(Head(book)) THEN <<Head(book)>> \o HeaderedOnly(Tail(book))
  ELSE HeaderedOnly(Tail(book))

\* C9: a sheet without a date-header row changes nothing: reading it leaves
\* the retained schedule and score as they are, and the outcome of the call
\* is the outcome for the workbook with the headerless sheets removed.
C9_HeaderlessSheetSkipped ==
  /\ [][(pc = "sheet" /\ si <= Len(wb) /\ ~HasHeaderRow(wb[si]))
          => (si' = si + 1 /\ pc' = "sheet" /\ best' = best
              /\ best_score' = best_score /\ result' = result)]_vars
  /\ [](Done => result = ParseWorkbook(HeaderedOnly(wb)))

\* a headerless sheet was followed by a sheet with two populated days,
\* whose schedule is returned
C9_Witness ==
  /\ pc = "returned"
  /\ Len(wb) = 2
  /\ ~HasHeaderRow(wb[1])
  /\ HasHeaderRow(wb[2])
  /\ Score(Outcomes[2]) = 2
  /\ result = Outcomes[2]

\* the entries of times written with a start hour of at least 18, in order
RECURSIVE ExpectedEvening(_, _, _)
ExpectedEvening(ts, hs, k) ==
  IF k > Len(ts) THEN <<>>
  ELSE (IF hs[k] # NoHour /\ hs[k] >= 18 THEN <<ts[k]>> ELSE <<>>)
       \o ExpectedEvening(ts, hs, k + 1)

\* C10: _filter_evening returns, in their original order, exactly the
\* entries that spell a start hour of at least 18; entries at hour 18 are
\* kept and entries without a start hour are dropped.
C10_EveningRetention ==
  pc = "filtered" => out = ExpectedEvening(times, expect, 1)

\* an entry at hour 18 was kept and an entry without a start hour dropped
C10_Witness ==
  /\ pc = "filtered"
  /\ Len(times) = 2
  /\ expect[1] = 18
  /\ expect[2] = NoHour
  /\ out = <<times[1]>>

\* a is b with some entries left out, the others in their order
RECURSIVE IsSubseq(_, _)
IsSubseq(a, b) ==
  IF a = <<>> THEN TRUE
  ELSE IF b = <<>> THEN FALSE
  ELSE IF Head(a) = Head(b) THEN IsSubseq(Tail(a), Tail(b))
  ELSE IsSubseq(a, Tail(b))

\* the output of the filter for every threshold hour up to h, entry k + 1
\* for threshold hour k
RECURSIVE FilteredUpTo(_)
FilteredUpTo(h) ==
  IF h < 0 THEN <<>> ELSE Append(FilteredUpTo(h - 1), FilterAt(times, h))

Filtered == LET all == FilteredUpTo(MaxThreshold) IN
              [h \in ThresholdHours |-> all[h + 1]]

\* C11: filtering is idempotent: filtering the list _filter_evening returned
\* gives that list again, and so it is for every threshold hour.
C11_Idempotent ==
  pc = "filtered" =>
    /\ _filter_evening(out) = out
    /\ \A h \in ThresholdHours :
         LET once == FilterAt(times, h) IN FilterAt(once, h) = once

\* two evening entries were kept and both survive a second pass
C11_Witness ==
  /\ pc = "filtered"
  /\ Len(times) = 2
  /\ expect[1] >= 18
  /\ expect[2] >= 18
  /\ out = times
  /\ _filter_evening(out) = out

\* C12: the filter is monotonic in the threshold: for h1 <= h2 the output
\* at h2 is a subsequence of, and no longer than, the output at h1; the list
\* _filter_evening returned is the output at EVENING_FROM_HOUR.
C12_MonotonicInThreshold ==
  pc = "filtered" =>
    LET all == FilteredUpTo(MaxThreshold)
        F == [h \in ThresholdHours |-> all[h + 1]]
    IN
      /\ out = F[EVENING_FROM_HOUR]
      /\ \A h1 \in ThresholdHours : \A h2 \in ThresholdHours :
           h1 <= h2 => /\ IsSubseq(F[h2], F[h1])
                       /\ Len(F[h2]) <= Len(F[h1])

\* an entry at hour 17 and one at hour 19: both kept at threshold 17, one at
\* 18, none at 24
C12_Witness ==
  /\ pc = "filtered"
  /\ Len(times) = 2
  /\ expect[1] = 17
  /\ expect[2] = 19
  /\ Filtered[17] = times
  /\ out = <<times[2]>>
  /\ Filtered[MaxThreshold] = <<>>

\* the entry lines of a message, in order
EntryLines(ls) == SelectSeq(ls, LAMBDA l : Len(l) = 2 /\ l[1] = "entry")

\* every time range of a schedule, day by day and category by category
RECURSIVE AllEntries(_, _)
AllEntries(sched, k) ==
  IF k > Len(sched) THEN <<>>
  ELSE sched[k].free \o sched[k].sanitary_time \o sched[k].sanitary_day
       \o AllEntries(sched, k + 1)

\* C13: build_message_html never changes the schedule it is handed, with or
\* without evening_only: the days, their order and their three lists stay as
\* given, so a rendering without evening_only shows every entry even after
\* an evening rendering of the same schedule.
C13_InputNotMutated ==
  /\ free_swim = given
  /\ (pc = "rendered" /\ ~evening_only) =>
       EntryLines(message) =
         [k \in 1..Len(AllEntries(given, 1)) |-> <<"entry", AllEntries(given, 1)[k]>>]

\* an evening rendering that dropped an entry, then a full rendering of the
\* same schedule
C13_Witness ==
  /\ pc = "rendered"
  /\ calls = <<TRUE, FALSE>>
  /\ Len(given) = 2
  /\ given[1].free = <<EntryText(7, "plain"), EntryText(19, "upper")>>
  /\ InSeq(<<"entry", EntryText(7, "plain")>>, message)

\* the column loop of the current sheet is over
SheetDone == pc = "column" /\ j >= Len(day_cols)

\* the normalised header row of the current sheet
HeaderCells == [c \in 1..DfWidth(df) |-> _norm(DfRow(df, date_row_idx)[c])]

\* the position (from 1) of the k-th date cell of the header row, counted
\* from the left
DateColumn(k) ==
  CHOOSE c \in 1..Len(HeaderCells) :
    /\ date_pat(HeaderCells[c])
    /\ Cardinality({i \in 1..(c - 1) : date_pat(HeaderCells[i])}) = k - 1

\* the normalised cells of column c (from 1) below the header row
CellsBelow(c) ==
  [k \in 1..(DfLen(df) - date_row_idx - 1) |->
     _norm(DfRow(df, date_row_idx + k)[c])]

\* C14: a sheet with n date cells in its header row gives min(7, n) day
\* entries; the k-th entry is labelled with the k-th weekday name and the
\* text of the k-th date cell from the left and holds what the cells below
\* that cell classify to; date columns after the seventh give nothing.
C14_DayColumns ==
  SheetDone =>
    LET n == Cardinality({c \in 1..Len(HeaderCells) : date_pat(HeaderCells[c])}) IN
      /\ Len(local) = (IF n < 7 THEN n ELSE 7)
      /\ \A k \in 1..Len(local) :
           /\ local[k].key = <<DAYS[k], HeaderCells[DateColumn(k)]>>
           /\ local[k] = ClassifyColumn(local[k].key, CellsBelow(DateColumn(k)))
      /\ \A k \in 8..n :
           /\ \A i \in 1..Len(local) : local[i].key[2] # HeaderCells[DateColumn(k)]
           /\ RangesOf(local) \cap {CellsBelow(DateColumn(k))[i] : i \in 1..(DfLen(df) - date_row_idx - 1)} = {}

\* eight date columns: seven entries, the eighth column's time range absent
C14_Witness ==
  /\ SheetDone
  /\ df = WideSheet(8)
  /\ Len(local) = 7
  /\ local[7].key = <<DAYS[7], DateText("1", "6")>>
  /\ local[2].free = <<<<"s", " ", "1", "3", ":", "0", "0">>>>

\* c switches the mode: it names a category and is not a family cell
IsMarkerCell(c) ==
  /\ c # <<>>
  /\ ~Contains(lower(c), Semejnoe)
  /\ Contains(lower(c), Sanitar) \/ Contains(lower(c), Svobodnoe)

\* none of the first n cells of the current column is a marker cell
NoMarkerAmong(n) == \A k \in 1..n : ~IsMarkerCell(col_cells[k])

\* C15: every day column starts in mode None whatever mode the column
\* before it ended in: as long as no marker cell of the column has been
\* read the mode is None and the day's three lists are empty, so a time
\* range above the first marker is ignored and a column without markers
\* gives three empty lists.
C15_ColumnStartsInNone ==
  (pc = "cell" /\ NoMarkerAmong(ci - 1)) =>
    /\ mode = "None"
    /\ local[j + 1] = EmptyDay(local[j + 1].key)

\* the first column ended in mode free with an entry; the second column, a
\* time range and no marker, has been read to its end and is empty
C15_Witness ==
  /\ pc = "cell"
  /\ j = 1
  /\ ci > Len(col_cells)
  /\ local[1].free =
       <<<<"s", " ", "0", "8", ":", "0", "0", " ", "d", "o", " ", "9", ":", "0", "0">>>>
  /\ col_cells[1] = <<"s", " ", "8", ":", "0", "0", " ", "d", "o", " ", "9", ":", "0", "0">>
  /\ NoMarkerAmong(Len(col_cells))
  /\ local[2] = EmptyDay(local[2].key)

\* the category a marker cell names
MarkerCategory(c) ==
  IF Contains(lower(c), SanitarnyjDen) THEN "sanitary_day"
  ELSE IF Contains(lower(c), Sanitar) THEN "sanitary_time"
  ELSE "free"

\* the category of the last marker cell among the first n cells of the
\* current column, "None" without one
NearestMarker(n) ==
  LET at == {k \in 1..n : IsMarkerCell(col_cells[k])} IN
    IF at = {} THEN "None"
    ELSE MarkerCategory(col_cells[CHOOSE k \in at : \A i \in at : i <= k])

\* a time range on its own: no marker, no family visit
IsPlainTimeCell(c) ==
  /\ c # <<>>
  /\ ~IsFamilyCell(c)
  /\ ~IsMarkerCell(c)
  /\ time_pat(lower(c))

Categories == {"free", "sanitary_time", "sanitary_day"}

\* C16: the mode is the category of the nearest marker cell above; a plain
\* time range below a marker is appended to the list of that category and
\* to no other list; a cell that is empty, a family visit or neither marker
\* nor time range leaves the mode and the lists as they are.
C16_Routing ==
  [][AtCell =>
       /\ mode = NearestMarker(ci - 1)
       /\ (IsPlainTimeCell(cell) /\ NearestMarker(ci - 1) # "None") =>
            /\ mode' = mode
            /\ local'[j + 1].key = today.key
            /\ \A cat \in Categories :
                 Extends(today[cat], local'[j + 1][cat], cat = NearestMarker(ci - 1))
       /\ (~IsPlainTimeCell(cell) /\ ~IsMarkerCell(cell)) =>
            /\ mode' = mode
            /\ local' = local
    ]_vars

\* a sanitary-time marker, a family visit that names the free category and
\* a cell that is neither, then a time range: it went to sanitary_time only
C16_Witness ==
  /\ pc = "cell"
  /\ j = 0
  /\ ci = 5
  /\ col_cells[1] = CellSanTime
  /\ IsFamilyCell(col_cells[2])
  /\ col_cells[3] = CellOther
  /\ IsPlainTimeCell(col_cells[4])
  /\ Len(today.sanitary_time) = 1
  /\ today.free = <<>>
  /\ today.sanitary_day = <<>>

\* c holds "s", digits, a colon or dot and two digits: an inline time range
HasInlineTime(c) ==
  \E p \in 1..Len(c) : LowerChar(c[p]) = "s" /\ TimeTailAt(c, p + 1)

\* cell k of the current column puts an entry into the list of cat
FeedsCategory(k, cat) ==
  \/ IsMarkerCell(col_cells[k]) /\ MarkerCategory(col_cells[k]) = cat
       /\ HasInlineTime(col_cells[k])
  \/ IsPlainTimeCell(col_cells[k]) /\ NearestMarker(k - 1) = cat

\* C17: a marker cell sets the mode to its own category whatever the mode
\* was; with an inline time range it appends exactly one entry, to the list
\* of its own category and to no other; without one it appends nothing, so
\* the list of a category whose markers carry no time range and are
\* followed by no time range stays empty.
C17_MarkerCells ==
  /\ [][(AtCell /\ IsMarkerCell(cell)) =>
          /\ mode' = MarkerCategory(cell)
          /\ local'[j + 1].key = today.key
          /\ \A cat \in Categories :
               Extends(today[cat], local'[j + 1][cat],
                       cat = MarkerCategory(cell) /\ HasInlineTime(cell))
       ]_vars
  /\ [](pc = "cell" =>
          \A cat \in Categories :
            (\A k \in 1..(ci - 1) : ~FeedsCategory(k, cat)) => today[cat] = <<>>)

\* in mode sanitary_time a free marker with an inline time range was read:
\* the mode is free, the entry is in free and sanitary_time is empty
C17_Witness ==
  /\ pc = "cell"
  /\ ci = 3
  /\ col_cells = <<CellSanTime, CellFreeInline>>
  /\ mode = "free"
  /\ today.free = <<<<"s", " ", "7", ":", "0", "0">>>>
  /\ today.sanitary_time = <<>>

\* the number of date cells in row i of the current sheet
DateCells(i) ==
  Cardinality({c \in 1..DfWidth(df) : date_pat(_norm(DfRow(df, i)[c]))})

\* the rows of the current sheet that can be its header row
HeaderCandidates ==
  {i \in 0..(DfLen(df) - 1) : i < 60 /\ DateCells(i) >= 3}

\* C18: the header row is the lowest row among the first 60 with at least 3
\* date cells: a row with fewer is never taken, a row at index 60 or more is
\* never taken and a sheet with no other is skipped; the cells a day column
\* hands to the classifier are those strictly below the header row.
C18_HeaderRow ==
  /\ [][(pc = "sheet" /\ si <= Len(wb)) =>
          IF HeaderCandidates = {}
          THEN pc' = "sheet" /\ si' = si + 1 /\ best' = best /\ best_score' = best_score
          ELSE /\ pc' = "column"
               /\ date_row_idx' \in HeaderCandidates
               /\ \A i \in HeaderCandidates : date_row_idx' <= i
       ]_vars
  /\ [][(pc = "column" /\ j < Len(day_cols)) =>
          col_cells' = CellsBelow(day_cols[j + 1] + 1)
       ]_vars

\* below a marker row and a row with two dates, the header row at index 2:
\* the first column was read from index 3 on, the free marker and the time
\* range above the header row left no entry
C18_Witness ==
  /\ pc = "cell"
  /\ df = StackedSheet(0)
  /\ date_row_idx = 2
  /\ j = 0
  /\ ci > Len(col_cells)
  /\ Len(col_cells) = 5
  /\ col_cells[1] = CellSanTime
  /\ today.sanitary_time = <<<<"s", " ", "1", "8", ":", "0", "0">>>>
  /\ today.free =
       <<<<"s", " ", "0", "8", ":", "0", "0", " ", "d", "o", " ", "9", ":", "0", "0">>>>

\* no schedule message was delivered for update u
NoSchedule(u) == \A m \in sent : ~(m[1] = u /\ m[2] = "schedule")

\* the error message for update u was delivered to the chat of u
ErrorSent(u) == <<u, "error", updates[u].chat>> \in sent

\* the updates a branch of the loop body has run on
Started == {u \in 1..Len(updates) : dispatched[u] >= 1}

\* C19 as stated: for every callback whose handling raised and is over, no
\* schedule message was sent and the error message was sent to its chat.
C19_FailureAlwaysReported ==
  \A u \in failed \cap finished : NoSchedule(u) /\ ErrorSent(u)

\* C19: when the handling of a callback raises, no schedule message is sent
\* for it and an error message to the same chat is attempted: delivered, the
\* loop goes on with the rest of the batch; not delivered, the rest of the
\* batch is dropped with every update in it still at or above offset.  A
\* schedule message is sent only after answer, link discovery, download and
\* parse have returned, and at most one update is in progress at a time.
C19_FailureReporting ==
  /\ [](\A u \in failed :
          /\ NoSchedule(u)
          /\ \A m \in sent : m[1] = u => m[3] = updates[u].chat
          /\ u \in finished => (ErrorSent(u) \/ u \in unreported))
  /\ [][(pc = "report" /\ pc' \notin {"report", "stopped"}) =>
          IF <<upd, "error", chat_id>> \in sent'
          THEN pc' = "next" /\ batch' = batch /\ offset' = offset
          ELSE /\ upd \in unreported'
               /\ sent' = sent
               /\ pc' = "sleep"
               /\ offset' = offset
               /\ \A k \in 1..Len(batch) : batch[k] >= offset
       ]_vars
  /\ [][(\E m \in sent' \ sent : m[2] = "schedule") =>
          /\ sent' \ sent = {<<upd, "schedule", chat_id>>}
          /\ {"answer", "link", "download", "parse"} \subseteq steps
          /\ upd \notin failed
       ]_vars
  /\ [](Cardinality(Started \ finished) <= 1)

\* the parse of the first of two callbacks raised: the error message went
\* to its chat, no schedule message, and the second update is next
C19_Witness ==
  /\ pc = "next"
  /\ upd = 1
  /\ steps = {"answer", "link", "download"}
  /\ failed = {1}
  /\ finished = {1}
  /\ ErrorSent(1)
  /\ NoSchedule(1)
  /\ batch = <<2>>

\* C20: offset is set to update_id + 1 before a branch of the loop body
\* runs on the update and never decreases; whatever raises, no update is
\* dispatched twice and every update below offset has been dispatched
\* (the one the loop is at is about to be, unless the loop was stopped).
C20_OffsetDiscipline ==
  /\ [][offset' >= offset]_vars
  /\ [][(pc = "next" /\ pc' = "dispatch") =>
          (offset' = upd' + 1 /\ dispatched' = dispatched)]_vars
  /\ [](\A u \in 1..Len(updates) :
          /\ dispatched[u] <= 1
          /\ u < offset =>
               (dispatched[u] = 1 \/ (upd = u /\ pc \in {"dispatch", "stopped"})))

\* the first callback raised and its error message could not be sent; the
\* second update, fetched again, got its schedule; both ran once
C20_Witness ==
  /\ Len(updates) = 2
  /\ failed = {1}
  /\ unreported = {1}
  /\ finished = {1, 2}
  /\ dispatched[1] = 1
  /\ dispatched[2] = 1
  /\ offset = 3
  /\ <<2, "schedule", updates[2].chat>> \in sent

====
